---- MODULE Spec2Model ----
(***************************************************************************)
(* State-machine model of server.py: a Flask application whose handlers    *)
(* read and write four SQLite tables (settings, scales, models, history).  *)
(*                                                                         *)
(* A JSON object (a Python dict) is a function whose DOMAIN is the set of  *)
(* keys present, so d.get(k, dflt) is Get(d, k, dflt); a history payload,  *)
(* whose text json.dumps writes key by key, is the sequence of its items.  *)
(* A table is the                                                          *)
(* collection of its committed rows.  A handler that raises (a constraint  *)
(* violation) answers 500 and its connection is closed without commit, so  *)
(* the statements it ran are rolled back.                                  *)
(***************************************************************************)
EXTENDS Integers, Sequences, FiniteSets, TLC

VARIABLES
    settings,   \* table settings: function key -> value
    scales,     \* table scales: set of rows [id, name, category, enabled, instructions]
    models,     \* table models: sequence of rows [id, name, provider] in rowid order
    history,    \* table history: set of rows [id, data, created_at]
    now,        \* the clock CURRENT_TIMESTAMP reads, in whole seconds
    defaults,   \* what load_defaults reads from data/prompts.json
    last,       \* the last request handled: [op, status, id, key]
    conc,       \* requests in flight, each on a connection of its own
    reset_pc    \* where the reset request stands: "idle", or "load" between
                \* its db.commit() and its load_defaults()

vars == <<settings, scales, models, history, now, defaults, last, conc, reset_pc>>

\* ------------------------------------------------------------------ bounds
MaxScaleId == 2
MaxHistId == 2
MaxModels == 2
MaxTime == 1
MaxItems == 2

\* ------------------------------------------------------------- JSON values
\* Python None / SQL NULL in a text column.
NULL == "<null>"

\* dict.get(k, dflt)
Get(d, k, dflt) == IF k \in DOMAIN d THEN d[k] ELSE dflt

\* dict.get('id') as an optional value: {} is None, {i} is i.
IdOf(d) == IF "id" \in DOMAIN d THEN {d["id"]} ELSE {}

\* The dict d without key k (dict.pop(k, None) leaves this behind).
Without(d, k) == [x \in DOMAIN d \ {k} |-> d[x]]

\* The dict d with d[k] = v assigned.
Assign(d, k, v) == [x \in DOMAIN d \cup {k} |-> IF x = k THEN v ELSE d[x]]

\* A dict whose key order is observed (a history payload, which json.dumps
\* writes out key by key): the sequence of its <<key, value>> items.
ItemKeys(od) == {od[i][1] : i \in 1..Len(od)}

\* od[k]
ItemGet(od, k) == od[CHOOSE i \in 1..Len(od) : od[i][1] = k][2]

\* od.pop('id', None) as an optional value: {} is None, {i} is i.
ItemId(od) == IF "id" \in ItemKeys(od) THEN {ItemGet(od, "id")} ELSE {}

\* What od.pop(k, None) leaves behind: the other items, in their order.
ItemPop(od, k) ==
    LET other(it) == it[1] # k
    IN  SelectSeq(od, other)

\* od[k] = v: in place when the key is present, appended when it is not.
ItemSet(od, k, v) ==
    IF k \in ItemKeys(od)
    THEN [i \in 1..Len(od) |-> IF od[i][1] = k THEN <<k, v>> ELSE od[i]]
    ELSE Append(od, <<k, v>>)

\* jsonify of such a dict: the JSON object the client reads, a function of
\* its keys.
jsonify(od) == [k \in ItemKeys(od) |-> ItemGet(od, k)]

\* json.dumps of a dict: its text, key then value for each item in the
\* dict's own order.
json_dumps(od) ==
    [i \in 1..(2 * Len(od)) |->
        IF i % 2 = 1 THEN od[(i + 1) \div 2][1] ELSE od[i \div 2][2]]

\* json.loads of such a text: the items in the order of the text.
json_loads(s) == [i \in 1..(Len(s) \div 2) |-> <<s[2 * i - 1], s[2 * i]>>]

\* -------------------------------------------------------------- SQL: scales
\* The largest rowid of a table with an INTEGER PRIMARY KEY (0 when empty).
MaxRowid(tbl) ==
    IF tbl = {} THEN 0
    ELSE CHOOSE m \in {r.id : r \in tbl} : \A r \in tbl : r.id <= m

\* Mutant: the next id taken from the number of rows.
CountPlusOne(tbl) == Cardinality(tbl) + 1

\* The rowid SQLite gives a row inserted with a NULL INTEGER PRIMARY KEY.
NextRowid(tbl) == MaxRowid(tbl) + 1

\* The VALUES a handler builds from a scale dict (id apart).
ScaleValues(scale) ==
    [name |-> Get(scale, "name", NULL),
     category |-> Get(scale, "category", NULL),
     enabled |-> IF Get(scale, "enabled", TRUE) THEN 1 ELSE 0,
     instructions |-> Get(scale, "instructions", "")]

ScaleRow(id, vals) ==
    [id |-> id, name |-> vals.name, category |-> vals.category,
     enabled |-> vals.enabled, instructions |-> vals.instructions]

\* Mutant: scales declared without its PRIMARY KEY constraint.
InsertScaleNoKey(tbl, idOpt, vals) ==
    LET id == IF idOpt = {} THEN NextRowid(tbl) ELSE CHOOSE i \in idOpt : TRUE
    IN  IF vals.name = NULL
        THEN [ok |-> FALSE, tbl |-> tbl, rowid |-> 0]
        ELSE [ok |-> TRUE, tbl |-> tbl \cup {ScaleRow(id, vals)}, rowid |-> id]

\* INSERT INTO scales: name is NOT NULL, id is the PRIMARY KEY.
InsertScale(tbl, idOpt, vals) ==
    LET id == IF idOpt = {} THEN NextRowid(tbl) ELSE CHOOSE i \in idOpt : TRUE
    IN  IF vals.name = NULL \/ (\E r \in tbl : r.id = id)
        THEN [ok |-> FALSE, tbl |-> tbl, rowid |-> 0]
        ELSE [ok |-> TRUE, tbl |-> tbl \cup {ScaleRow(id, vals)}, rowid |-> id]

\* INSERT OR REPLACE INTO scales: a row with the same id is deleted first.
InsertOrReplaceScale(tbl, idOpt, vals) ==
    LET id == IF idOpt = {} THEN NextRowid(tbl) ELSE CHOOSE i \in idOpt : TRUE
    IN  IF vals.name = NULL
        THEN [ok |-> FALSE, tbl |-> tbl, rowid |-> 0]
        ELSE [ok |-> TRUE,
              tbl |-> {r \in tbl : r.id # id} \cup {ScaleRow(id, vals)},
              rowid |-> id]

\* UPDATE scales SET name=?, category=?, enabled=?, instructions=? WHERE id=?
UpdateScale(tbl, id, vals) ==
    IF (\E r \in tbl : r.id = id) /\ vals.name = NULL
    THEN [ok |-> FALSE, tbl |-> tbl]
    ELSE [ok |-> TRUE,
          tbl |-> {IF r.id = id THEN ScaleRow(id, vals) ELSE r : r \in tbl}]

\* Mutant: DELETE ... WHERE id <= ?
DeleteUpToId(tbl, id) == {r \in tbl : r.id > id}

\* DELETE FROM <table> WHERE id = ?  (a table held as a set of rows)
DeleteWhereId(tbl, id) == {r \in tbl : r.id # id}

\* The loop of save_scales (INSERT) or load_defaults (INSERT OR REPLACE) over
\* the supplied scales, stopping at the first statement that raises.
RECURSIVE InsertScales(_, _, _)
InsertScales(tbl, seq, replace) ==
    IF seq = <<>> THEN [ok |-> TRUE, tbl |-> tbl]
    ELSE LET scale == Head(seq)
             r == IF replace
                  THEN InsertOrReplaceScale(tbl, IdOf(scale), ScaleValues(scale))
                  ELSE InsertScale(tbl, IdOf(scale), ScaleValues(scale))
         IN  IF r.ok THEN InsertScales(r.tbl, Tail(seq), replace)
             ELSE [ok |-> FALSE, tbl |-> tbl]

\* Mutant: ORDER BY id DESC.
RECURSIVE OrderByIdDesc(_)
OrderByIdDesc(tbl) ==
    IF tbl = {} THEN <<>>
    ELSE LET r == CHOOSE x \in tbl : \A y \in tbl : x.id >= y.id
         IN  <<r>> \o OrderByIdDesc(tbl \ {r})

\* The rows of a table sorted ascending by id (ORDER BY id).
RECURSIVE OrderById(_)
OrderById(tbl) ==
    IF tbl = {} THEN <<>>
    ELSE LET r == CHOOSE x \in tbl : \A y \in tbl : x.id <= y.id
         IN  <<r>> \o OrderById(tbl \ {r})

\* -------------------------------------------------------------- SQL: models
ModelValues(model) ==
    [id |-> Get(model, "id", NULL),
     name |-> Get(model, "name", NULL),
     provider |-> Get(model, "provider", "")]

\* INSERT INTO models: name is NOT NULL; id is a TEXT PRIMARY KEY, which in
\* SQLite is a UNIQUE index that admits any number of NULLs.
InsertModel(tbl, row) ==
    IF row.name = NULL
       \/ (row.id # NULL /\ \E i \in 1..Len(tbl) : tbl[i].id = row.id)
    THEN [ok |-> FALSE, tbl |-> tbl]
    ELSE [ok |-> TRUE, tbl |-> Append(tbl, row)]

\* Mutant: models declared without its PRIMARY KEY, so nothing is replaced.
InsertModelNoKey(tbl, row) ==
    IF row.name = NULL
    THEN [ok |-> FALSE, tbl |-> tbl]
    ELSE [ok |-> TRUE, tbl |-> Append(tbl, row)]

\* INSERT OR REPLACE INTO models: the row with the same id is deleted and the
\* new row takes the next rowid, so it is scanned last.
InsertOrReplaceModel(tbl, row) ==
    LET keep(r) == row.id = NULL \/ r.id # row.id
    IN  IF row.name = NULL
        THEN [ok |-> FALSE, tbl |-> tbl]
        ELSE [ok |-> TRUE, tbl |-> Append(SelectSeq(tbl, keep), row)]

\* DELETE FROM models WHERE id = ?  (never matches a NULL id)
DeleteModelWhereId(tbl, id) ==
    LET keep(r) == r.id = NULL \/ r.id # id
    IN  SelectSeq(tbl, keep)

RECURSIVE InsertModels(_, _, _)
InsertModels(tbl, seq, replace) ==
    IF seq = <<>> THEN [ok |-> TRUE, tbl |-> tbl]
    ELSE LET row == ModelValues(Head(seq))
             r == IF replace THEN InsertOrReplaceModel(tbl, row)
                  ELSE InsertModel(tbl, row)
         IN  IF r.ok THEN InsertModels(r.tbl, Tail(seq), replace)
             ELSE [ok |-> FALSE, tbl |-> tbl]

\* ------------------------------------------------------------ SQL: settings
\* INSERT OR REPLACE INTO settings (key, value)
InsertOrReplaceSetting(tbl, k, v) == Assign(tbl, k, v)

\* The loop "for key in [...]: if key in data: INSERT OR REPLACE".
RECURSIVE SaveKeys(_, _, _)
SaveKeys(tbl, keys, data) ==
    IF keys = <<>> THEN tbl
    ELSE LET k == Head(keys)
         IN  SaveKeys(IF k \in DOMAIN data
                      THEN InsertOrReplaceSetting(tbl, k, data[k]) ELSE tbl,
                      Tail(keys), data)

PromptKeys == <<"systemPrompt", "personalityPrompt", "requirementsPrompt">>

\* ------------------------------------------------------------- SQL: history
\* INSERT INTO history: id is the INTEGER PRIMARY KEY, created_at defaults to
\* CURRENT_TIMESTAMP.
InsertHistory(tbl, idOpt, data, ts) ==
    LET id == IF idOpt = {} THEN NextRowid(tbl) ELSE CHOOSE i \in idOpt : TRUE
    IN  IF \E r \in tbl : r.id = id
        THEN [ok |-> FALSE, tbl |-> tbl, rowid |-> 0]
        ELSE [ok |-> TRUE,
              tbl |-> tbl \cup {[id |-> id, data |-> data, created_at |-> ts]},
              rowid |-> id]

\* The loop of save_history: item.pop('id', None), then INSERT (id, data).
\* Each INSERT reads CURRENT_TIMESTAMP for itself: tss[i] is the reading of
\* the i-th.
RECURSIVE InsertHistoryItems(_, _, _)
InsertHistoryItems(tbl, seq, tss) ==
    IF seq = <<>> THEN [ok |-> TRUE, tbl |-> tbl]
    ELSE LET item == Head(seq)
             r == InsertHistory(tbl, ItemId(item), json_dumps(ItemPop(item, "id")),
                                Head(tss))
         IN  IF r.ok THEN InsertHistoryItems(r.tbl, Tail(seq), Tail(tss))
             ELSE [ok |-> FALSE, tbl |-> tbl]

\* ORDER BY created_at DESC: SQLite's sorter emits rows of equal created_at
\* in the order the table scan fed them, ascending rowid.
RECURSIVE OrderByCreatedDesc(_)
OrderByCreatedDesc(tbl) ==
    IF tbl = {} THEN <<>>
    ELSE LET r == CHOOSE x \in tbl : \A y \in tbl :
                      \/ x.created_at > y.created_at
                      \/ (x.created_at = y.created_at /\ x.id <= y.id)
         IN  <<r>> \o OrderByCreatedDesc(tbl \ {r})

\* ---------------------------------------------------------------- database
Db == [settings |-> settings, scales |-> scales, models |-> models,
       history |-> history]

\* A dict with no keys; also the settings table with no rows.
EmptyDict == [x \in {} |-> NULL]

EmptyDb == [settings |-> EmptyDict, scales |-> {}, models |-> <<>>, history |-> {}]

\* What load_defaults uses when prompts.json is missing or unparseable.
FallbackDefaults == [systemPrompt |-> "", scales |-> <<>>, models |-> <<>>]

\* load_defaults: the three prompt keys, the scales and the models of the
\* defaults document, each with INSERT OR REPLACE, then one commit.  A
\* statement that raises leaves nothing committed.
load_defaults(db, doc) ==
    LET st == SaveKeys(db.settings, PromptKeys, doc)
        sc == InsertScales(db.scales, Get(doc, "scales", <<>>), TRUE)
        mo == InsertModels(db.models, Get(doc, "models", <<>>), TRUE)
    IN  IF sc.ok /\ mo.ok
        THEN [ok |-> TRUE,
              db |-> [settings |-> st, scales |-> sc.tbl, models |-> mo.tbl,
                      history |-> db.history]]
        ELSE [ok |-> FALSE, db |-> db]

\* init_db: CREATE TABLE IF NOT EXISTS, then the defaults when scales is empty.
init_db(db, doc) ==
    IF db.scales = {} THEN load_defaults(db, doc) ELSE [ok |-> TRUE, db |-> db]

\* The four DELETEs of reset_to_defaults.
delete_all(db) ==
    [settings |-> EmptyDict, scales |-> db.scales \ db.scales,
     models |-> <<>>, history |-> db.history \ db.history]

\* reset_to_defaults with no other request between its two commits.
reset_db(db, doc) == load_defaults(delete_all(db), doc).db

\* --------------------------------------------------------------- responses
\* What a handler answered: the route, the HTTP status, and the id (scales,
\* history) or key (settings, models) it was asked about or returned.
Resp(op, status, id, key) == [op |-> op, status |-> status, id |-> id, key |-> key]

\* bool(scale['enabled']) over the rows ORDER BY id
get_scales_result(tbl) ==
    LET rows == OrderById(tbl)
    IN  [i \in 1..Len(rows) |->
            [id |-> rows[i].id, name |-> rows[i].name,
             category |-> rows[i].category, enabled |-> rows[i].enabled # 0,
             instructions |-> rows[i].instructions]]

\* json.loads(row['data']) with item['id'] = row['id']
HistoryItem(row) == jsonify(ItemSet(json_loads(row.data), "id", row.id))

get_history_result(tbl) ==
    LET rows == OrderByCreatedDesc(tbl)
    IN  [i \in 1..Len(rows) |-> HistoryItem(rows[i])]

get_history_item_result(tbl, analysis_id) ==
    IF \E r \in tbl : r.id = analysis_id
    THEN [status |-> 200,
          body |-> HistoryItem(CHOOSE r \in tbl : r.id = analysis_id)]
    ELSE [status |-> 404, body |-> [error |-> "Not found"]]

\* jsonify({key: row['value'] if row else None})
get_setting_result(tbl, key) ==
    [status |-> 200, body |-> Assign(EmptyDict, key, Get(tbl, key, NULL))]

\* update_scale answers {"success": True} whenever the UPDATE does not raise.
update_scale_status(tbl, scale_id, data) ==
    IF UpdateScale(tbl, scale_id, ScaleValues(data)).ok THEN 200 ELSE 500

\* ------------------------------------------------------------------ inputs
\* The dict with the items of d1 and, for the other keys, those of d2.
Merge(d1, d2) ==
    [x \in DOMAIN d1 \cup DOMAIN d2 |-> IF x \in DOMAIN d1 THEN d1[x] ELSE d2[x]]

\* The sequences over S of length at most n.
SeqsUpTo(S, n) == UNION {[1..k -> S] : k \in 0..n}

ScaleIds == 1..MaxScaleId
HistIds == 1..MaxHistId

\* Request bodies for one scale: complete, name only, name missing.
ScaleBodies ==
    {[name |-> "a", category |-> "c", enabled |-> FALSE, instructions |-> "i"],
     [name |-> "b"],
     [category |-> "c"]}

\* Complete scale records, as the editor posts them to replace the set.
ScaleRecords ==
    {[id |-> i, name |-> v[1], category |-> "c", enabled |-> v[2],
      instructions |-> "i"] :
        i \in ScaleIds, v \in {<<"a", TRUE>>, <<"b", FALSE>>}}

\* Request bodies for one scale with every field supplied.
CompleteBodies == {Without(r, "id") : r \in ScaleRecords}

\* Items of a replace-all, among them an id repeated with other fields.
ScaleItems == {r \in ScaleRecords : r.name = "a" \/ r.id = 1}

\* One request body for a scale.
OneBody == {d \in CompleteBodies : d.name = "a"}

ModelIds == {"m1", "m2"}

\* Request bodies for one model: two of the same id, one without id.
ModelBodies ==
    {[id |-> "m1", name |-> "n1", provider |-> "p"],
     [id |-> "m1", name |-> "n2"],
     [name |-> "n1"]}

FewModelBodies ==
    {[id |-> "m1", name |-> "n1", provider |-> "p"], [id |-> "m1", name |-> "n2"]}

\* History payloads: JSON objects, some carrying an "id" of their own before
\* or after their other key.
Payloads ==
    {<<<<"candidateName", "A">>>>, <<<<"candidateName", "B">>>>,
     <<<<"position", "dev">>>>}
        \cup {<<<<"candidateName", "B">>, <<"id", i>>>> : i \in HistIds}
        \cup {<<<<"id", i>>, <<"candidateName", "B">>>> : i \in HistIds}

FewPayloads ==
    {<<<<"candidateName", "A">>>>, <<<<"id", 1>>, <<"candidateName", "B">>>>}

\* The readings of the clock by n statements run one after another, none
\* earlier than t.
Readings(n, t) ==
    {tss \in [1..n -> t..MaxTime] : \A i \in 1..(n - 1) : tss[i] <= tss[i + 1]}

SettingKeys == {"systemPrompt", "apiKey"}

SettingBodies == {[systemPrompt |-> "u"]}

\* prompts.json: missing, or a document (one of its ids repeated).
DefaultDocs ==
    {FallbackDefaults,
     [systemPrompt |-> "d",
      scales |-> <<[id |-> 1, name |-> "b", enabled |-> FALSE],
                   [id |-> 1, name |-> "a", category |-> "c", instructions |-> "i"]>>,
      models |-> <<[id |-> "m1", name |-> "n2"],
                   [id |-> "m1", name |-> "n1", provider |-> "p"]>>]}

\* ---------------------------------------------------------------- handlers
\* No request in flight.
Idle == [kind |-> "", lock |-> "", reqs |-> EmptyDict, order |-> <<>>]

Store(db) ==
    /\ settings' = db.settings
    /\ scales' = db.scales
    /\ models' = db.models
    /\ history' = db.history

\* with app.app_context(): init_db()  -- each start of the server
\* The request the stopped server had in flight is gone.
Restart ==
    /\ Store(init_db(Db, defaults).db)
    /\ last' = Resp("init_db", 0, 0, "")
    /\ reset_pc' = "idle"
    /\ UNCHANGED <<now, defaults, conc>>

\* CURRENT_TIMESTAMP moves on by a second.
Tick ==
    /\ now < MaxTime
    /\ now' = now + 1
    /\ UNCHANGED <<settings, scales, models, history, defaults, last, conc, reset_pc>>

get_settings ==
    /\ last' = Resp("get_settings", 200, 0, "")
    /\ UNCHANGED <<settings, scales, models, history, now, defaults, conc, reset_pc>>

save_settings(data) ==
    /\ settings' = Merge(data, settings)
    /\ last' = Resp("save_settings", 200, 0, "")
    /\ UNCHANGED <<scales, models, history, now, defaults, conc, reset_pc>>

get_setting(key) ==
    /\ last' = Resp("get_setting", get_setting_result(settings, key).status, 0, key)
    /\ UNCHANGED <<settings, scales, models, history, now, defaults, conc, reset_pc>>

save_setting(key, data) ==
    /\ settings' = InsertOrReplaceSetting(settings, key, Get(data, "value", ""))
    /\ last' = Resp("save_setting", 200, 0, key)
    /\ UNCHANGED <<scales, models, history, now, defaults, conc, reset_pc>>

get_prompts ==
    /\ last' = Resp("get_prompts", 200, 0, "")
    /\ UNCHANGED <<settings, scales, models, history, now, defaults, conc, reset_pc>>

save_prompts(data) ==
    /\ settings' = SaveKeys(settings, PromptKeys, data)
    /\ last' = Resp("save_prompts", 200, 0, "")
    /\ UNCHANGED <<scales, models, history, now, defaults, conc, reset_pc>>

get_system_prompt ==
    /\ last' = Resp("get_system_prompt", 200, 0, "systemPrompt")
    /\ UNCHANGED <<settings, scales, models, history, now, defaults, conc, reset_pc>>

save_system_prompt(data) ==
    /\ settings' = InsertOrReplaceSetting(settings, "systemPrompt",
                                          Get(data, "systemPrompt", ""))
    /\ last' = Resp("save_system_prompt", 200, 0, "systemPrompt")
    /\ UNCHANGED <<scales, models, history, now, defaults, conc, reset_pc>>

get_scales ==
    /\ last' = Resp("get_scales", 200, Len(get_scales_result(scales)), "")
    /\ UNCHANGED <<settings, scales, models, history, now, defaults, conc, reset_pc>>

\* DELETE FROM scales, one INSERT per supplied scale, commit.
save_scales(data) ==
    LET r == InsertScales({}, Get(data, "scales", <<>>), FALSE)
    IN  /\ scales' = IF r.ok THEN r.tbl ELSE scales
        /\ last' = Resp("save_scales", IF r.ok THEN 200 ELSE 500, 0, "")
        /\ UNCHANGED <<settings, models, history, now, defaults, conc, reset_pc>>

update_scale(scale_id, data) ==
    /\ scales' = UpdateScale(scales, scale_id, ScaleValues(data)).tbl
    /\ last' = Resp("update_scale", update_scale_status(scales, scale_id, data),
                    scale_id, "")
    /\ UNCHANGED <<settings, models, history, now, defaults, conc, reset_pc>>

delete_scale(scale_id) ==
    /\ scales' = DeleteWhereId(scales, scale_id)
    /\ last' = Resp("delete_scale", 200, scale_id, "")
    /\ UNCHANGED <<settings, models, history, now, defaults, conc, reset_pc>>

\* INSERT without an id; the answer carries cursor.lastrowid.
add_scale(data) ==
    LET r == InsertScale(scales, {}, ScaleValues(data))
    IN  /\ NextRowid(scales) <= MaxScaleId
        /\ scales' = r.tbl
        /\ last' = Resp("add_scale", IF r.ok THEN 200 ELSE 500, r.rowid, "")
        /\ UNCHANGED <<settings, models, history, now, defaults, conc, reset_pc>>

get_models ==
    /\ last' = Resp("get_models", 200, Len(models), "")
    /\ UNCHANGED <<settings, scales, models, history, now, defaults, conc, reset_pc>>

save_models(data) ==
    LET r == InsertModels(<<>>, Get(data, "models", <<>>), FALSE)
    IN  /\ models' = IF r.ok THEN r.tbl ELSE models
        /\ last' = Resp("save_models", IF r.ok THEN 200 ELSE 500, 0, "")
        /\ UNCHANGED <<settings, scales, history, now, defaults, conc, reset_pc>>

add_model(data) ==
    LET r == InsertOrReplaceModel(models, ModelValues(data))
    IN  /\ Len(r.tbl) <= MaxModels
        /\ models' = r.tbl
        /\ last' = Resp("add_model", IF r.ok THEN 200 ELSE 500, 0,
                        Get(data, "id", NULL))
        /\ UNCHANGED <<settings, scales, history, now, defaults, conc, reset_pc>>

delete_model(model_id) ==
    /\ models' = DeleteModelWhereId(models, model_id)
    /\ last' = Resp("delete_model", 200, 0, model_id)
    /\ UNCHANGED <<settings, scales, history, now, defaults, conc, reset_pc>>

get_history ==
    /\ last' = Resp("get_history", 200, Len(get_history_result(history)), "")
    /\ UNCHANGED <<settings, scales, models, history, now, defaults, conc, reset_pc>>

\* DELETE FROM history, one INSERT per item, commit; the clock may move on
\* between the INSERTs, which read it as tss.
save_history(data, tss) ==
    LET r == InsertHistoryItems({}, Get(data, "history", <<>>), tss)
    IN  /\ history' = IF r.ok THEN r.tbl ELSE history
        /\ now' = IF tss = <<>> THEN now ELSE tss[Len(tss)]
        /\ last' = Resp("save_history", IF r.ok THEN 200 ELSE 500, 0, "")
        /\ UNCHANGED <<settings, scales, models, defaults, conc, reset_pc>>

add_history(data) ==
    LET r == InsertHistory(history, {}, json_dumps(data), now)
    IN  /\ NextRowid(history) <= MaxHistId
        /\ history' = r.tbl
        /\ last' = Resp("add_history", IF r.ok THEN 200 ELSE 500, r.rowid, "")
        /\ UNCHANGED <<settings, scales, models, now, defaults, conc, reset_pc>>

get_history_item(analysis_id) ==
    /\ last' = Resp("get_history_item",
                    get_history_item_result(history, analysis_id).status,
                    analysis_id, "")
    /\ UNCHANGED <<settings, scales, models, history, now, defaults, conc, reset_pc>>

delete_history_item(analysis_id) ==
    /\ history' = DeleteWhereId(history, analysis_id)
    /\ last' = Resp("delete_history_item", 200, analysis_id, "")
    /\ UNCHANGED <<settings, scales, models, now, defaults, conc, reset_pc>>

\* reset_to_defaults up to its db.commit(): the four DELETEs are committed
\* and the other requests read the tables empty.
reset_to_defaults_delete ==
    /\ reset_pc = "idle"
    /\ Store(delete_all(Db))
    /\ reset_pc' = "load"
    /\ UNCHANGED <<now, defaults, last, conc>>

\* reset_to_defaults from load_defaults() on: the defaults go, with INSERT
\* OR REPLACE, into the tables as the other requests left them meanwhile.
reset_to_defaults_load ==
    LET r == load_defaults(Db, defaults)
    IN  /\ reset_pc = "load"
        /\ Store(r.db)
        /\ reset_pc' = "idle"
        /\ last' = Resp("reset_to_defaults", IF r.ok THEN 200 ELSE 500, 0, "")
        /\ UNCHANGED <<now, defaults, conc>>

\* ----------------------------------------------------------- specifications
Init ==
    /\ defaults \in DefaultDocs
    /\ settings = init_db(EmptyDb, defaults).db.settings
    /\ scales = init_db(EmptyDb, defaults).db.scales
    /\ models = init_db(EmptyDb, defaults).db.models
    /\ history = {}
    /\ now = 0
    /\ last = Resp("init_db", 0, 0, "")
    /\ conc = Idle
    /\ reset_pc = "idle"

\* Every handler on single records, and the restart.
Next ==
    \/ Restart
    \/ reset_to_defaults_delete
    \/ reset_to_defaults_load
    \/ get_settings
    \/ \E d \in SettingBodies : save_settings(d)
    \/ \E k \in SettingKeys : get_setting(k)
    \/ save_setting("systemPrompt", [value |-> "u"])
    \/ get_prompts
    \/ \E d \in SettingBodies : save_prompts(d)
    \/ get_system_prompt
    \/ \E d \in SettingBodies : save_system_prompt(d)
    \/ get_scales
    \/ \E i \in ScaleIds, d \in ScaleBodies : update_scale(i, d)
    \/ \E i \in ScaleIds : delete_scale(i)
    \/ \E d \in ScaleBodies : add_scale(d)
    \/ get_models
    \/ \E d \in FewModelBodies : add_model(d)
    \/ \E i \in ModelIds : delete_model(i)
    \/ get_history
    \/ \E d \in FewPayloads : add_history(d)
    \/ \E i \in HistIds : get_history_item(i)
    \/ \E i \in HistIds : delete_history_item(i)

Spec == Init /\ [][Next]_vars

\* The scales, replace-all included.
ScalesNext ==
    \/ Restart
    \/ get_scales
    \/ \E s \in SeqsUpTo(ScaleRecords, MaxItems) : save_scales([scales |-> s])
    \/ \E i \in ScaleIds, d \in CompleteBodies : update_scale(i, d)
    \/ \E i \in ScaleIds : delete_scale(i)
    \/ \E d \in CompleteBodies : add_scale(d)

SpecScales == Init /\ [][ScalesNext]_vars

\* The scales and the models, replace-all included.
CatalogNext ==
    \/ Restart
    \/ reset_to_defaults_delete
    \/ reset_to_defaults_load
    \/ get_scales
    \/ \E s \in SeqsUpTo(ScaleItems, MaxItems) : save_scales([scales |-> s])
    \/ \E i \in ScaleIds, d \in OneBody : update_scale(i, d)
    \/ \E i \in ScaleIds : delete_scale(i)
    \/ \E d \in OneBody : add_scale(d)
    \/ get_models
    \/ \E s \in SeqsUpTo(ModelBodies, MaxItems) : save_models([models |-> s])
    \/ \E d \in ModelBodies : add_model(d)
    \/ \E i \in ModelIds : delete_model(i)

SpecCatalog == Init /\ [][CatalogNext]_vars

\* The history, with the clock.
HistoryNext ==
    \/ Tick
    \/ get_history
    \/ \E s \in SeqsUpTo(Payloads, MaxItems) :
          \E tss \in Readings(Len(s), now) : save_history([history |-> s], tss)
    \/ \E d \in Payloads : add_history(d)
    \/ \E i \in HistIds : get_history_item(i)
    \/ \E i \in HistIds : delete_history_item(i)

SpecHistory == Init /\ [][HistoryNext]_vars

\* ------------------------------------------------- requests in flight
\* Two replace-all requests of one kind, each on the connection get_db opens
\* for it, with list requests between their statements.  sqlite3 opens a
\* transaction before the first DELETE, which takes the database's write
\* lock; the statements of the transaction reach the other connections at
\* commit; a connection closed without commit is rolled back.
Writers == {"w1", "w2"}

Kinds == {"scales", "models", "history"}

SaveOp(kind) == CASE kind = "scales" -> "save_scales"
                  [] kind = "models" -> "save_models"
                  [] kind = "history" -> "save_history"

ConcItems(kind) ==
    CASE kind = "scales" ->
            {[id |-> 1, name |-> "a", category |-> "c", enabled |-> TRUE,
              instructions |-> "i"],
             [id |-> 2, name |-> "b", category |-> "c", enabled |-> FALSE,
              instructions |-> "i"],
             [id |-> 1, name |-> "b", category |-> "c", enabled |-> FALSE,
              instructions |-> "i"]}
      [] kind = "models" ->
            {[id |-> "m1", name |-> "n1", provider |-> "p"],
             [id |-> "m2", name |-> "n1", provider |-> "p"],
             [id |-> "m1", name |-> "n2", provider |-> "p"]}
      [] kind = "history" ->
            {<<<<"candidateName", "A">>, <<"id", 1>>>>,
             <<<<"id", 2>>, <<"candidateName", "B">>>>,
             <<<<"candidateName", "B">>, <<"id", 1>>>>}

\* The committed table of a kind, as every connection reads it.
TableOf(kind) == CASE kind = "scales" -> scales
                   [] kind = "models" -> models
                   [] kind = "history" -> history

EmptyTable(kind) == IF kind = "models" THEN <<>> ELSE {}

\* One INSERT of the loop of save_scales, save_models or save_history.
InsertItem(kind, work, item, ts) ==
    CASE kind = "scales" ->
            LET r == InsertScale(work, IdOf(item), ScaleValues(item))
            IN  [ok |-> r.ok, tbl |-> r.tbl]
      [] kind = "models" -> InsertModel(work, ModelValues(item))
      [] kind = "history" ->
            LET r == InsertHistory(work, ItemId(item),
                                   json_dumps(ItemPop(item, "id")), ts)
            IN  [ok |-> r.ok, tbl |-> r.tbl]

\* Mutant: a connection in autocommit mode, each statement committed at once.
Autocommit(committed, work) == work

\* What the other connections read after a statement of an open transaction
\* left the writer's table as work: still the committed table.
Visible(committed, work) == committed

Publish(kind, tbl) ==
    /\ scales' = IF kind = "scales" THEN tbl ELSE scales
    /\ models' = IF kind = "models" THEN tbl ELSE models
    /\ history' = IF kind = "history" THEN tbl ELSE history

InFlight(w, pc) == w \in DOMAIN conc.reqs /\ conc.reqs[w].pc = pc

Ended(req, status) == [req EXCEPT !.pc = "done", !.status = status]

\* request.get_json() and get_db(): the request has its body and connection.
Arrive(w, S) ==
    /\ w \notin DOMAIN conc.reqs
    /\ conc' = [conc EXCEPT !.reqs =
                    Assign(@, w, [pc |-> "delete", input |-> S, todo |-> S,
                                  work |-> EmptyTable(conc.kind), status |-> 0])]
    /\ UNCHANGED <<settings, scales, models, history, now, defaults, last, reset_pc>>

\* db.execute('DELETE FROM ...') with the write lock free.
ExecDelete(w) ==
    /\ InFlight(w, "delete")
    /\ conc.lock = ""
    /\ conc' = [conc EXCEPT !.lock = w,
                            !.reqs[w].pc = "insert",
                            !.reqs[w].work = EmptyTable(conc.kind)]
    /\ Publish(conc.kind, Visible(TableOf(conc.kind), EmptyTable(conc.kind)))
    /\ UNCHANGED <<settings, now, defaults, last, reset_pc>>

\* db.execute('DELETE FROM ...') while another connection holds the write
\* lock past the busy timeout: "database is locked", the request answers 500.
Locked(w) ==
    /\ InFlight(w, "delete")
    /\ conc.lock \notin {"", w}
    /\ conc' = [conc EXCEPT !.reqs[w] = Ended(@, 500)]
    /\ last' = Resp(SaveOp(conc.kind), 500, 0, w)
    /\ UNCHANGED <<settings, scales, models, history, now, defaults, reset_pc>>

\* The next INSERT of the loop; one that raises ends the request, and closing
\* its connection rolls the transaction back.
ExecInsert(w) ==
    /\ InFlight(w, "insert")
    /\ conc.reqs[w].todo # <<>>
    /\ LET req == conc.reqs[w]
           r == InsertItem(conc.kind, req.work, Head(req.todo), now)
       IN  IF r.ok
           THEN /\ conc' = [conc EXCEPT !.reqs[w].work = r.tbl,
                                        !.reqs[w].todo = Tail(req.todo)]
                /\ Publish(conc.kind, Visible(TableOf(conc.kind), r.tbl))
                /\ last' = last
           ELSE /\ conc' = [conc EXCEPT !.lock = "", !.reqs[w] = Ended(@, 500)]
                /\ Publish(conc.kind, TableOf(conc.kind))
                /\ last' = Resp(SaveOp(conc.kind), 500, 0, w)
    /\ UNCHANGED <<settings, now, defaults, reset_pc>>

\* db.commit() after the loop.
Commit(w) ==
    /\ InFlight(w, "insert")
    /\ conc.reqs[w].todo = <<>>
    /\ conc' = [conc EXCEPT !.lock = "", !.reqs[w] = Ended(@, 200),
                            !.order = Append(@, w)]
    /\ Publish(conc.kind, conc.reqs[w].work)
    /\ last' = Resp(SaveOp(conc.kind), 200, 0, w)
    /\ UNCHANGED <<settings, now, defaults, reset_pc>>

ConcInit ==
    /\ defaults \in DefaultDocs
    /\ settings = init_db(EmptyDb, defaults).db.settings
    /\ scales = init_db(EmptyDb, defaults).db.scales
    /\ models = init_db(EmptyDb, defaults).db.models
    /\ history = {}
    /\ now = 0
    /\ last = Resp("init_db", 0, 0, "")
    /\ \E k \in Kinds : conc = [Idle EXCEPT !.kind = k]
    /\ reset_pc = "idle"

ConcNext ==
    \/ \E w \in Writers, S \in SeqsUpTo(ConcItems(conc.kind), MaxItems) : Arrive(w, S)
    \/ \E w \in Writers : ExecDelete(w)
    \/ \E w \in Writers : Locked(w)
    \/ \E w \in Writers : ExecInsert(w)
    \/ \E w \in Writers : Commit(w)
    \/ (conc.kind = "history" /\ Tick)
    \/ get_scales
    \/ get_models
    \/ get_history

SpecConc == ConcInit /\ [][ConcNext]_vars

\* ================================================================== claims

\* ----------------------------------------------------------------------- C1
ScaleIdsUnique == \A r1, r2 \in scales : r1.id = r2.id => r1 = r2

ModelIdsUnique ==
    \A i, j \in 1..Len(models) :
        (i # j /\ models[i].id # NULL) => models[i].id # models[j].id

\* add_model with an id leaves one row of that id, holding the call's fields.
AddModelUpserts ==
    \A m \in ModelBodies :
        (last'.op = "add_model" /\ last'.status = 200 /\ "id" \in DOMAIN m
         /\ add_model(m)) =>
            \E i \in 1..Len(models') :
                /\ models'[i].id = m.id
                /\ models'[i].name = m.name
                /\ models'[i].provider = Get(m, "provider", "")
                /\ \A j \in 1..Len(models') : models'[j].id = m.id => j = i

\* C1: over every sequence of scale and model operations, seeding and reset
\* included, no two stored scales share an id and no two stored models share
\* an id; add_model on an id already stored leaves exactly one row with it,
\* holding the fields of that call.
C1_UniqueIds == [](ScaleIdsUnique /\ ModelIdsUnique) /\ [][AddModelUpserts]_vars

\* add_model replaced m1 while a later row was stored: m1 is now scanned last.
C1_Witness ==
    /\ last.op = "add_model" /\ last.status = 200 /\ last.key = "m1"
    /\ Len(models) = 2
    /\ models[1].id = NULL
    /\ models[2] = [id |-> "m1", name |-> "n2", provider |-> ""]
    /\ Cardinality(scales) = 2

\* ----------------------------------------------------------------------- C2
DistinctIds(S) == \A i, j \in 1..Len(S) : i # j => S[i].id # S[j].id

\* out lists exactly the records of S, ascending by id.
IsSortedCopy(out, S) ==
    /\ Len(out) = Len(S)
    /\ {out[i] : i \in 1..Len(out)} = {S[i] : i \in 1..Len(S)}
    /\ \A i, j \in 1..Len(out) : i < j => out[i].id < out[j].id

\* C2: save_scales of any S with pairwise distinct ids succeeds, and get_scales
\* then returns exactly the records of S ascending by id, whatever was stored.
C2_ReplaceAllRoundTrip ==
    [][\A S \in SeqsUpTo(ScaleRecords, MaxItems) :
          (last'.op = "save_scales" /\ DistinctIds(S)
           /\ save_scales([scales |-> S])) =>
              /\ last'.status = 200
              /\ IsSortedCopy(get_scales_result(scales'), S)]_vars

\* Two complete records were installed, the one of id 2 named "a".
C2_Witness ==
    /\ last.op = "save_scales" /\ last.status = 200
    /\ Len(get_scales_result(scales)) = 2
    /\ get_scales_result(scales)[2] =
           [id |-> 2, name |-> "a", category |-> "c", enabled |-> TRUE,
            instructions |-> "i"]
    /\ get_scales_result(scales)[1].enabled = FALSE

\* ----------------------------------------------------------------------- C8
\* The row r with the fields of the request body d merged in.
Merged(r, d) ==
    [id |-> r.id,
     name |-> Get(d, "name", r.name),
     category |-> Get(d, "category", r.category),
     enabled |-> IF "enabled" \in DOMAIN d
                 THEN (IF d["enabled"] THEN 1 ELSE 0) ELSE r.enabled,
     instructions |-> Get(d, "instructions", r.instructions)]

\* C8: update_scale on a stored id merges the supplied fields into the row:
\* fields absent from the request keep their stored values, the id and every
\* other scale are unchanged.
C8_UpdateMerges ==
    [][\A i \in ScaleIds, d \in ScaleBodies :
          (last'.op = "update_scale" /\ update_scale(i, d)
           /\ \E r \in scales : r.id = i) =>
              /\ last'.status = 200
              /\ scales' = {IF r.id = i THEN Merged(r, d) ELSE r : r \in scales}]_vars

\* ----------------------------------------------------------------------- C3
\* No two scale rows and no two model rows of db share an id.
NoDuplicateRows(db) ==
    /\ \A r1, r2 \in db.scales : r1.id = r2.id => r1 = r2
    /\ \A i, j \in 1..Len(db.models) : db.models[i].id = db.models[j].id => i = j

\* A reset whose load_defaults finds the tables as its own DELETEs left them
\* ends in the state reset_db gives.
ResetAlone ==
    (last'.op = "reset_to_defaults" /\ Db = EmptyDb /\ reset_to_defaults_load) =>
        /\ last'.status = 200
        /\ Store(reset_db(Db, defaults))

\* C3: from every reachable state, reset_to_defaults run twice in a row (no
\* other request between the statements of either run) leaves the same four
\* tables as run once, with no duplicate rows.
C3_ResetIdempotent ==
    /\ [](LET once == reset_db(Db, defaults)
              twice == reset_db(once, defaults)
          IN  twice = once /\ NoDuplicateRows(once))
    /\ [][ResetAlone]_vars

\* A reset has just reseeded the scale and the model of a repeated id.
C3_Witness ==
    /\ last.op = "reset_to_defaults" /\ last.status = 200 /\ reset_pc = "idle"
    /\ Cardinality(scales) = 1 /\ Len(models) = 1
    /\ settings = [systemPrompt |-> "d"]
    /\ Db = reset_db(Db, defaults)

\* ----------------------------------------------------------------------- C5
\* C5: get_history_item, get_setting and update_scale answer 404 when no
\* record has the id or key asked for.
C5_NotFoundContract ==
    /\ (last.op = "get_history_item" /\ ~\E r \in history : r.id = last.id)
          => last.status = 404
    /\ (last.op = "get_setting" /\ last.key \notin DOMAIN settings)
          => last.status = 404
    /\ (last.op = "update_scale" /\ ~\E r \in scales : r.id = last.id)
          => last.status = 404

\* ----------------------------------------------------------------------- C6
Tables == <<settings, scales, models, history>>

HasId(tbl, id) == \E r \in tbl : r.id = id

ModelHasId(tbl, id) == \E i \in 1..Len(tbl) : tbl[i].id = id

\* tbl2 is tbl1 less the one row of that id, the others in their order.
ModelRemoved(tbl1, tbl2, id) ==
    /\ Len(tbl2) = Len(tbl1) - 1
    /\ \E k \in 1..Len(tbl1) :
          /\ tbl1[k].id = id
          /\ \A i \in 1..Len(tbl2) : tbl2[i] = tbl1[IF i < k THEN i ELSE i + 1]

DeleteScaleFrame ==
    \A i \in ScaleIds :
        (last'.op = "delete_scale" /\ delete_scale(i)) =>
            /\ last'.status = 200
            /\ UNCHANGED <<settings, models, history>>
            /\ IF HasId(scales, i)
               THEN /\ scales' \subseteq scales
                    /\ Cardinality(scales') = Cardinality(scales) - 1
                    /\ ~HasId(scales', i)
               ELSE scales' = scales

DeleteModelFrame ==
    \A i \in ModelIds :
        (last'.op = "delete_model" /\ delete_model(i)) =>
            /\ last'.status = 200
            /\ UNCHANGED <<settings, scales, history>>
            /\ IF ModelHasId(models, i)
               THEN ModelRemoved(models, models', i)
               ELSE models' = models

DeleteHistoryFrame ==
    \A i \in HistIds :
        (last'.op = "delete_history_item" /\ delete_history_item(i)) =>
            /\ last'.status = 200
            /\ UNCHANGED <<settings, scales, models>>
            /\ IF HasId(history, i)
               THEN /\ history' \subseteq history
                    /\ Cardinality(history') = Cardinality(history) - 1
                    /\ ~HasId(history', i)
               ELSE history' = history

\* C6: delete_scale, delete_model and delete_history_item answer success; with
\* an id no record has they leave all four tables as they were, with a stored
\* id they remove that record and nothing else.
C6_DeleteFrame ==
    [][DeleteScaleFrame /\ DeleteModelFrame /\ DeleteHistoryFrame]_vars

\* delete_model of an id never stored, answered 200, the model list intact.
C6_Witness ==
    /\ last.op = "delete_model" /\ last.status = 200 /\ last.key = "m2"
    /\ Len(models) = 1 /\ models[1].id = "m1"
    /\ Cardinality(scales) = 2 /\ Cardinality(history) = 1

\* ----------------------------------------------------------------------- C9
\* The entry of id n in a listing, if any.
Entries(list, n) == {list[i] : i \in {j \in 1..Len(list) : list[j].id = n}}

AddScaleFresh ==
    \A d \in ScaleBodies :
        (last'.op = "add_scale" /\ "name" \in DOMAIN d /\ add_scale(d)) =>
            /\ last'.status = 200
            /\ ~HasId(scales, last'.id)
            /\ scales \subseteq scales'
            /\ \E e \in Entries(get_scales_result(scales'), last'.id) :
                  \A k \in DOMAIN d : e[k] = d[k]

AddHistoryFresh ==
    \A p \in FewPayloads :
        (last'.op = "add_history" /\ add_history(p)) =>
            /\ last'.status = 200
            /\ ~HasId(history, last'.id)
            /\ history \subseteq history'
            /\ \E e \in Entries(get_history_result(history'), last'.id) :
                  /\ \A k \in ItemKeys(p) \ {"id"} : e[k] = ItemGet(p, k)
                  /\ get_history_item_result(history', last'.id) =
                         [status |-> 200, body |-> e]

\* C9: add_scale (given a name) and add_history succeed with an id no stored
\* record of the kind had, leave the stored records as they were, and the next
\* listing, and get_history_item of that id, carry the supplied fields under it.
C9_AddAssignsFreshId == [][AddScaleFresh /\ AddHistoryFresh]_vars

\* add_history answered id 2 while entry 1 was stored.
C9_Witness ==
    /\ last.op = "add_history" /\ last.status = 200 /\ last.id = 2
    /\ get_history_item_result(history, 2).status = 200
    /\ get_history_item_result(history, 2).body["candidateName"] = "B"
    /\ HasId(history, 1)
    /\ Cardinality(scales) = 2

\* ---------------------------------------------------------------------- C10
\* C10: an initialization that finds a stored scale changes no table, and no
\* initialization after the first changes a stored setting or drops or
\* rewrites a stored model.
C10_SeedOnlyOnce ==
    [][(last'.op = "init_db" /\ Restart) =>
          /\ (scales # {} => UNCHANGED Tables)
          /\ \A k \in DOMAIN settings :
                k \in DOMAIN settings' /\ settings'[k] = settings[k]
          /\ \A i \in 1..Len(models) :
                \E j \in 1..Len(models') : models'[j] = models[i]]_vars

\* ----------------------------------------------------------------------- C4
\* The entry of id a stands before the entry of id b in the listing.
Before(list, a, b) ==
    \E i, j \in 1..Len(list) : i < j /\ list[i].id = a /\ list[j].id = b

\* C4: when add_history follows add_history, whatever time passed between
\* them, get_history lists the second entry before the first.
C4_NewestFirst ==
    [][\A p \in Payloads :
          (last.op = "add_history" /\ last'.op = "add_history" /\ add_history(p)) =>
              Before(get_history_result(history'), last'.id, last.id)]_vars

\* ----------------------------------------------------------------------- C7
\* The table that holds exactly the supplied records S.
RowsOf(kind, S) ==
    CASE kind = "scales" ->
            {ScaleRow(S[i].id, ScaleValues(S[i])) : i \in 1..Len(S)}
      [] kind = "models" -> [i \in 1..Len(S) |-> ModelValues(S[i])]
      [] kind = "history" ->
            {[id |-> ItemGet(S[i], "id"), data |-> json_dumps(ItemPop(S[i], "id"))] :
                i \in 1..Len(S)}

\* The records a table holds, the history's without their timestamps.
Records(kind, tbl) ==
    IF kind = "history" THEN {[id |-> r.id, data |-> r.data] : r \in tbl} ELSE tbl

\* The table a list request reads changes only as a replace-all commits, and
\* then to the complete set that request supplied.
ReplacedWhole ==
    TableOf(conc.kind)' # TableOf(conc.kind) =>
        \E w \in Writers :
            /\ InFlight(w, "insert")
            /\ conc'.reqs[w].pc = "done" /\ conc'.reqs[w].status = 200
            /\ Records(conc.kind, TableOf(conc.kind)') =
                   RowsOf(conc.kind, conc.reqs[w].input)

\* With every replace-all ended, the table is the set of the last to commit.
LastCommitWins ==
    (conc.order # <<>> /\ \A w \in Writers : InFlight(w, "done")) =>
        Records(conc.kind, TableOf(conc.kind)) =
            RowsOf(conc.kind, conc.reqs[conc.order[Len(conc.order)]].input)

\* C7: a list request concurrent with a replace-all reads the complete
\* previous set or the complete supplied set, and of two racing replace-alls
\* the stored set ends as the supplied set of the last to commit.
C7_ReplaceAllAtomic == []LastCommitWins /\ [][ReplacedWhole]_vars

\* get_scales answered the two records w2 committed while w1, its DELETE and
\* the first of its two INSERTs run, had not yet committed.
C7_Witness ==
    /\ conc.kind = "scales"
    /\ conc.order = <<"w2">> /\ Len(conc.reqs["w2"].input) = 2
    /\ InFlight("w1", "insert")
    /\ Len(conc.reqs["w1"].input) = 2 /\ Len(conc.reqs["w1"].todo) = 1
    /\ last.op = "get_scales" /\ last.id = 2
    /\ scales = RowsOf("scales", conc.reqs["w2"].input)

====
